---- MODULE Spec2Model ----
(***************************************************************************)
(* EnergyCounter (ecounter): the energy accounting of src/src/*.c as a     *)
(* state machine.                                                          *)
(*                                                                         *)
(* Numbers.  TLC evaluates integers in 32 bits, so the two C integer       *)
(* widths of the program are kept as widths but scaled: uint32_t is a      *)
(* word of Bits32 bits and uint64_t a word of Bits64 bits (Bits32 <        *)
(* Bits64).  The RAPL wraparound constant (1LU << 32) is 2^Bits32.  A      *)
(* double is modelled by the exact rational it stands for; a conversion    *)
(* double -> uint64_t is the floor, and is undefined (any value) outside   *)
(* the range of the type.  The one place where the rounding of a double    *)
(* reaches the integer result, the MI250 share ratio, carries the          *)
(* direction of the rounding error as an input (rnd).                      *)
(*                                                                         *)
(* Collaborators.  In Spec the external collaborators honour the interface *)
(* the code relies on: a RAPL counter is a 32 bit counter, a utilisation   *)
(* is a percentage, GPU timestamps do not run backwards.  The operations   *)
(* are pure operators on a Unit_t; the specifications named Probe* apply   *)
(* one operation to every value its C parameter types admit.               *)
(***************************************************************************)
EXTENDS Integers, Naturals, Sequences, FiniteSets, TLC

VARIABLES
    hw,          \* what device discovery finds (fixed at process start)
    ec,          \* Ecounter_t without its components: options and overhead
    components,  \* Ecounter_t.components: group name -> sequence of Unit_t
    pc,          \* position of main(): "init", "update", "overhead", "sleep", "exit"
    pos,         \* index in PosSeq of the unit the init / update loop is at
    cycle,       \* completed sampling cycles
    status,      \* "running" or how the process ended
    samples,     \* observation: raw reads (mock: updates) done per unit, capped
    acc_sum,     \* observation: per unit, sum of energy_interval at the end of each cycle
    res_fetches, \* observation: per unit, assignments of energy_resolution, capped
    ev,          \* observation: the step just taken
    cycle_log,   \* observation: what the current cycle of the loop has done so far
    probe        \* the operation under test of the Probe* specifications

vars == <<hw, ec, components, pc, pos, cycle, status, samples, acc_sum, res_fetches,
          ev, cycle_log, probe, cycle_log>>

(***************************************************************************)
(* Widths and bounds                                                       *)
(***************************************************************************)
Bits32 == 12
Bits64 == 29
MaxCycles == 2

TwoPow32 == 2^Bits32
TwoPow64 == 2^Bits64
UINT32_MAX == TwoPow32 - 1
INT_MAX == 2^(Bits32 - 1) - 1

U32(x) == x % TwoPow32
U64(x) == x % TwoPow64

Min(a, b) == IF a < b THEN a ELSE b
Max(a, b) == IF a > b THEN a ELSE b

(***************************************************************************)
(* Program constants                                                       *)
(***************************************************************************)
N_SIBLINGS_MAX == 16
INTERVAL_DEFAULT == 10
MSR_ENERGY_UNIT_MASK == 31
MI250 == 2828
MAX1550 == 1550
gcd_idle_power == 40
MICRO == 1000000
MILLI == 1000
NANO == 1000000000

Interfaces == <<"AMD_GPUS", "INTEL_GPUS", "NVIDIA_GPUS", "CPUS", "DRAMS", "MOCKS">>
INTERFACES_MAX == Len(Interfaces)

(***************************************************************************)
(* Unit_t.  energy_resolution (a double) is the rational <<num, den>>;     *)
(* timestamp (ns) is <<s, ns>> standing for s * 1E9 + ns; peer is the      *)
(* index of the peer in the same group, 0 for NULL; file is the content of  *)
(* the output file behind energy_fd, a sequence of characters.             *)
(***************************************************************************)
Unit_t ==
    [timestamp |-> <<0, 0>>, bus_id |-> 0, energy_resolution |-> <<0, 1>>,
     energy_raw |-> 0, energy_acc |-> 0, energy_interval |-> 0,
     energy_fd |-> "NULL", id |-> 0, model |-> 0, busy_percent |-> 0,
     fixed_watts |-> 0, serial |-> 0, peer |-> 0, file |-> <<>>]

\* variant: the comparison of the early return is reversed
ResolutionKnownReversed(res) == res[1] < 0

ResolutionKnown(res) == res[1] > 0

\* (uint64_t)(res * delta / scale), res and delta non-negative
ScaleToJoules(res, delta, scale) == (res[1] * delta) \div (res[2] * scale)

RECURSIVE Decimal(_)
\* the characters "%lu" prints for n
Decimal(n) ==
    LET digit == <<"0", "1", "2", "3", "4", "5", "6", "7", "8", "9">>[(n % 10) + 1]
    IN  IF n < 10 THEN <<digit>> ELSE Append(Decimal(n \div 10), digit)

\* the characters "%lu Joules" prints for energy_acc
FormatJoules(energy_acc) == Decimal(energy_acc) \o <<" ", "J", "o", "u", "l", "e", "s">>

\* text written at the start of a file that holds content: what lies beyond the
\* end of the text stays
Overwrite(content, text) ==
    [i \in 1..Max(Len(content), Len(text)) |->
        IF i <= Len(text) THEN text[i] ELSE content[i]]

\* variant: the text is written where the previous one ended
WriteFileWithoutRewind(unit) ==
    [unit EXCEPT !.file = @ \o FormatJoules(unit.energy_acc)]

\* fprintf(energy_fd, "%lu Joules", energy_acc); rewind(energy_fd)
WriteFile(unit) ==
    [unit EXCEPT !.file = Overwrite(@, FormatJoules(unit.energy_acc))]

(***************************************************************************)
(* cpu.c / dram.c                                                          *)
(***************************************************************************)
\* (msr_unit >> 8) & MSR_ENERGY_UNIT_MASK
EnergyUnitField(msr_unit) == (msr_unit \div 256) % (MSR_ENERGY_UNIT_MASK + 1)

\* pow(0.5, k)
PowHalf(k) == <<1, 2^k>>

_cpu_package_fetch_energy(package, raw, msr_unit) ==
    LET p1 == [package EXCEPT !.energy_raw = raw]
    IN  IF ResolutionKnown(p1.energy_resolution)
        THEN p1
        ELSE [p1 EXCEPT !.energy_resolution = PowHalf(EnergyUnitField(msr_unit))]

\* the raw delta of _cpu_package_update_files, in uint64_t arithmetic
WrapDelta(last_energy_raw, energy_raw) ==
    IF energy_raw >= last_energy_raw
    THEN U64(energy_raw - last_energy_raw)
    ELSE U64(U64(TwoPow32 - last_energy_raw) + energy_raw)

\* variant: energy_acc = energy_interval instead of +=
_cpu_package_update_files_assign(package, raw, msr_unit) ==
    LET last_energy_raw == package.energy_raw
        p1 == _cpu_package_fetch_energy(package, raw, msr_unit)
        p2 == [p1 EXCEPT !.energy_interval =
                  ScaleToJoules(p1.energy_resolution,
                                WrapDelta(last_energy_raw, p1.energy_raw), 1)]
        p3 == [p2 EXCEPT !.energy_acc = p2.energy_interval]
    IN  WriteFile(p3)

_cpu_package_update_files(package, raw, msr_unit) ==
    LET last_energy_raw == package.energy_raw
        p1 == _cpu_package_fetch_energy(package, raw, msr_unit)
        p2 == [p1 EXCEPT !.energy_interval =
                  ScaleToJoules(p1.energy_resolution,
                                WrapDelta(last_energy_raw, p1.energy_raw), 1)]
        p3 == [p2 EXCEPT !.energy_acc = U64(p2.energy_acc + p2.energy_interval)]
    IN  WriteFile(p3)

_dram_package_fetch_energy(package, raw, msr_unit) ==
    _cpu_package_fetch_energy(package, raw, msr_unit)

_dram_package_update_files(package, raw, msr_unit) ==
    LET last_energy_raw == package.energy_raw
        p1 == _dram_package_fetch_energy(package, raw, msr_unit)
        p2 == [p1 EXCEPT !.energy_interval =
                  ScaleToJoules(p1.energy_resolution,
                                WrapDelta(last_energy_raw, p1.energy_raw), 1)]
        p3 == [p2 EXCEPT !.energy_acc = U64(p2.energy_acc + p2.energy_interval)]
    IN  WriteFile(p3)

(***************************************************************************)
(* mock.c                                                                  *)
(***************************************************************************)
_mock_update_files(mock) ==
    WriteFile([mock EXCEPT !.energy_acc = U64(mock.energy_acc + mock.energy_interval)])

\* the body of the loop of mock_init
mock_init_unit(mock, i, watts, interval) ==
    [mock EXCEPT !.id = i - 1, !.fixed_watts = watts,
                 !.energy_interval = U32(watts * interval),
                 !.energy_fd = "open"]

(***************************************************************************)
(* amd_gpu.c                                                               *)
(***************************************************************************)
\* assert(dev->energy_raw >= last_energy_raw)
RawAssertNeverFails(last_energy_raw, energy_raw) == FALSE

RawAssertFails(last_energy_raw, energy_raw) == energy_raw < last_energy_raw

\* (dev->timestamp - last_timestamp) / 1E9 as uint64_t, for timestamps
\* <<s, ns>> that did not run backwards
ElapsedSeconds(last_timestamp, timestamp) ==
    (timestamp[1] - last_timestamp[1]) - (IF timestamp[2] < last_timestamp[2] THEN 1 ELSE 0)

TsAdd(ts, d) ==
    <<ts[1] + d[1] + ((ts[2] + d[2]) \div NANO), (ts[2] + d[2]) % NANO>>

\* variant: no first-iteration return, the first read is measured from 0
_amd_device_fetch_energy_no_baseline(dev, raw, resolution, ts) ==
    LET last_energy_raw == dev.energy_raw
        d1 == [dev EXCEPT !.energy_raw = raw, !.timestamp = ts,
                          !.energy_resolution = <<resolution, 1>>]
        d2 == [d1 EXCEPT !.energy_interval =
                  ScaleToJoules(d1.energy_resolution, U64(raw - last_energy_raw), MICRO)]
    IN  [d2 EXCEPT !.energy_acc = U64(d2.energy_acc + d2.energy_interval)]

_amd_device_fetch_energy(dev, raw, resolution, ts) ==
    LET last_energy_raw == dev.energy_raw
        d1 == [dev EXCEPT !.energy_raw = raw, !.timestamp = ts,
                          !.energy_resolution = <<resolution, 1>>]
        d2 == [d1 EXCEPT !.energy_interval =
                  ScaleToJoules(d1.energy_resolution, U64(raw - last_energy_raw), MICRO)]
    IN  IF last_energy_raw = 0
        THEN d1
        ELSE [d2 EXCEPT !.energy_acc = U64(d2.energy_acc + d2.energy_interval)]

\* energy_ratio = 0.005 * busy - 0.005 * peer busy + 0.5, in units of 1/200
RatioNumPeerFirst(busy, peer_busy) == 100 + peer_busy - busy

RatioNum(busy, peer_busy) == 100 + busy - peer_busy

\* the ratio is an exact double for these values only
RatioExact(n) == n \in {0, 100, 200}

\* (uint64_t)(double): the truncation when it is representable, else undefined (ub)
DoubleToU64(num, den, ub) ==
    LET t == IF num >= 0 THEN num \div den ELSE -((-num) \div den)
    IN  IF t >= 0 /\ t < TwoPow64 THEN t ELSE ub

\* energy_idle + (energy_ratio * energy_min_idle), the ratio being n / 200 with a
\* rounding error of sign rnd
ShareOf(energy_idle, n, energy_min_idle, rnd, ub) ==
    LET p == n * energy_min_idle
        t == DoubleToU64((200 * energy_idle) + p, 200, ub)
    IN  IF rnd < 0 /\ ~RatioExact(n) /\ p > 0 /\ p % 200 = 0 THEN t - 1 ELSE t

\* lines 135-154 of _amd_device_fetch_energy_mi250: <<interval of dev, interval of peer>>
\* variant: the idle energy of the two dies is not taken off the combined energy
Mi250SplitIdleNotDeducted(energy, elapsed_s, busy, peer_busy, rnd, ub) ==
    LET energy_idle == U64(gcd_idle_power * elapsed_s)
        n == RatioNum(busy, peer_busy)
    IN  <<ShareOf(energy_idle, n, energy, rnd, ub),
          ShareOf(energy_idle, 200 - n, energy, -rnd, ub)>>

Mi250Split(energy, elapsed_s, busy, peer_busy, rnd, ub) ==
    LET energy_idle == U64(gcd_idle_power * elapsed_s)
        energy_min_idle == IF energy > U64(2 * energy_idle)
                           THEN U64(energy - U64(2 * energy_idle)) ELSE 0
        n == RatioNum(busy, peer_busy)
    IN  <<ShareOf(energy_idle, n, energy_min_idle, rnd, ub),
          ShareOf(energy_idle, 200 - n, energy_min_idle, -rnd, ub)>>

\* variant: the peer's energy_interval is stored but not added to its energy_acc
_amd_device_fetch_energy_mi250_peer_acc_kept(siblings, i, busy, peer_busy, raw, resolution, ts, rnd, ub) ==
    LET dev == siblings[i]
        j == dev.peer
        last_energy_raw == dev.energy_raw
        d1 == [dev EXCEPT !.busy_percent = busy, !.energy_raw = raw, !.timestamp = ts,
                          !.energy_resolution = <<resolution, 1>>]
        p1 == [siblings[j] EXCEPT !.busy_percent = peer_busy]
        energy == ScaleToJoules(d1.energy_resolution, U64(raw - last_energy_raw), MICRO)
        split == Mi250Split(energy, ElapsedSeconds(dev.timestamp, ts),
                            busy, peer_busy, rnd, ub)
        d2 == [d1 EXCEPT !.energy_interval = split[1],
                         !.energy_acc = U64(d1.energy_acc + split[1])]
        p2 == [p1 EXCEPT !.energy_interval = split[2]]
    IN  IF j = 0
        THEN siblings
        ELSE IF last_energy_raw = 0
             THEN [siblings EXCEPT ![i] = d1, ![j] = p1]
             ELSE [siblings EXCEPT ![i] = d2, ![j] = p2]

\* on the siblings of the group: dev is siblings[i]
_amd_device_fetch_energy_mi250(siblings, i, busy, peer_busy, raw, resolution, ts, rnd, ub) ==
    LET dev == siblings[i]
        j == dev.peer
        last_energy_raw == dev.energy_raw
        last_timestamp == dev.timestamp
        d1 == [dev EXCEPT !.busy_percent = busy, !.energy_raw = raw, !.timestamp = ts,
                          !.energy_resolution = <<resolution, 1>>]
        p1 == [siblings[j] EXCEPT !.busy_percent = peer_busy]
        energy == ScaleToJoules(d1.energy_resolution, U64(raw - last_energy_raw), MICRO)
        split == Mi250Split(energy, ElapsedSeconds(last_timestamp, ts),
                            busy, peer_busy, rnd, ub)
        d2 == [d1 EXCEPT !.energy_interval = split[1],
                         !.energy_acc = U64(d1.energy_acc + split[1])]
        p2 == [p1 EXCEPT !.energy_interval = split[2],
                         !.energy_acc = U64(p1.energy_acc + split[2])]
    IN  IF j = 0
        THEN siblings
        ELSE IF last_energy_raw = 0
             THEN [siblings EXCEPT ![i] = d1, ![j] = p1]
             ELSE [siblings EXCEPT ![i] = d2, ![j] = p2]

\* the loop body of amd_gpu_init up to the first fetch: serial, peer link of the
\* previous unit, model, PCI id
amd_discover(siblings, i, serial, model, bus_id) ==
    LET s1 == [siblings EXCEPT ![i].id = i - 1, ![i].serial = serial,
                               ![i].model = model, ![i].bus_id = bus_id]
    IN  IF i > 1 /\ serial = siblings[i - 1].serial
        THEN [s1 EXCEPT ![i - 1].peer = i]
        ELSE s1

(***************************************************************************)
(* intel_gpu.c / nvidia_gpu.c                                              *)
(***************************************************************************)
\* variant: the first-iteration return comes after the interval is stored
_intel_device_update_files_late_return(dev, raw) ==
    LET last_energy_raw == dev.energy_raw
        d1 == [dev EXCEPT !.energy_raw = raw]
        whole == ScaleToJoules(<<1, 1>>, U64(raw - last_energy_raw), MICRO)
        d2 == [d1 EXCEPT !.energy_interval =
                  IF d1.model = MAX1550 THEN whole \div 2 ELSE whole]
        d3 == [d2 EXCEPT !.energy_acc = U64(d2.energy_acc + d2.energy_interval)]
    IN  IF last_energy_raw = 0 THEN d2 ELSE WriteFile(d3)

_intel_device_update_files(dev, raw) ==
    LET last_energy_raw == dev.energy_raw
        d1 == [dev EXCEPT !.energy_raw = raw]
        whole == ScaleToJoules(<<1, 1>>, U64(raw - last_energy_raw), MICRO)
        d2 == [d1 EXCEPT !.energy_interval =
                  IF d1.model = MAX1550 THEN whole \div 2 ELSE whole]
        d3 == [d2 EXCEPT !.energy_acc = U64(d2.energy_acc + d2.energy_interval)]
    IN  IF last_energy_raw = 0 THEN d1 ELSE WriteFile(d3)

\* the loop body of intel_gpu_init: bus id, peer link of the previous unit, model
intel_discover(siblings, i, bus_id, model) ==
    LET s1 == [siblings EXCEPT ![i].id = i - 1, ![i].bus_id = bus_id,
                               ![i].model = model, ![i].energy_fd = "open"]
    IN  IF i > 1 /\ bus_id = siblings[i - 1].bus_id
        THEN [s1 EXCEPT ![i - 1].peer = i]
        ELSE s1

_nvidia_device_update_files(dev, raw) ==
    LET last_energy_raw == dev.energy_raw
        d1 == [dev EXCEPT !.energy_raw = raw]
        d2 == [d1 EXCEPT !.energy_interval =
                  ScaleToJoules(<<1, 1>>, U64(raw - last_energy_raw), MILLI)]
        d3 == [d2 EXCEPT !.energy_acc = U64(d2.energy_acc + d2.energy_interval)]
    IN  IF last_energy_raw = 0 THEN d1 ELSE WriteFile(d3)

(***************************************************************************)
(* ecounter.c: the overhead estimator                                      *)
(***************************************************************************)
RECURSIVE SumIntervals32(_, _)
\* the inner loop of compute_overhead: uint32_t energy_interval += siblings[j].energy_interval
SumIntervals32(siblings, acc) ==
    IF siblings = <<>> THEN acc
    ELSE SumIntervals32(Tail(siblings), U32(acc + Head(siblings).energy_interval))

RECURSIVE SumComponents32(_, _, _)
\* the outer loop of compute_overhead over the INTERFACES_MAX components
SumComponents32(comps, i, acc) ==
    IF i > INTERFACES_MAX THEN acc
    ELSE SumComponents32(comps, i + 1, SumIntervals32(comps[Interfaces[i]], acc))

\* power_interval and overhead_interval of compute_overhead (ec->interval > 0)
PowerInterval(comps, interval) == SumComponents32(comps, 1, 0) \div interval

OverheadInterval(power_interval, node_power) ==
    IF power_interval < node_power THEN node_power - power_interval ELSE 0

\* variant: no return on power_interval == 0
UpdateOverheadAlways(overhead, power_interval, overhead_interval) ==
    [min |-> Min(overhead_interval, overhead.min),
     max |-> Max(overhead_interval, overhead.max),
     mov_average |-> U32(U32(overhead.mov_average * overhead.n_samples)
                         + overhead_interval) \div U32(overhead.n_samples + 1),
     n_samples |-> U32(overhead.n_samples + 1)]

\* lines 263-271 of compute_overhead
UpdateOverhead(overhead, power_interval, overhead_interval) ==
    IF power_interval = 0
    THEN overhead
    ELSE [min |-> Min(overhead_interval, overhead.min),
          max |-> Max(overhead_interval, overhead.max),
          mov_average |-> U32(U32(overhead.mov_average * overhead.n_samples)
                              + overhead_interval) \div U32(overhead.n_samples + 1),
          n_samples |-> U32(overhead.n_samples + 1)]

\* how far fetch_node_power gets: popen fails, fgets reads nothing, strtol parsed
FetchOutcomes == {"popen", "no_output", "parsed"}

NodePowerValidIfNotZero(power) == power # 0

\* fetch_node_power returns (uint32_t) power for the parsed int64_t power > 0
NodePowerValid(power) == power > 0

(***************************************************************************)
(* What the process is started with: the devices discovery will find and   *)
(* the parsed options.                                                     *)
(***************************************************************************)
AmdDev(serial, model, resolution) ==
    [serial |-> serial, model |-> model, resolution |-> resolution]

IntelDev(bus_id, model) == [bus_id |-> bus_id, model |-> model]

\* intel_driver: built with INTEL_GPU and zeDriverGet finds a Level Zero driver
Hw(amd, intel, nvidia, cpus, drams) ==
    [amd |-> amd, intel |-> intel, nvidia |-> nvidia, cpus |-> cpus, drams |-> drams,
     intel_driver |-> Len(intel) > 0]

Opt(interval, mock_watts, power_cmd) ==
    [interval |-> interval, mock_watts |-> mock_watts, power_cmd |-> power_cmd]

Configs ==
    { <<Hw(<<>>, <<>>, 0, 1, 0), Opt(INTERVAL_DEFAULT, <<>>, TRUE)>>,
      <<Hw(<<>>, <<>>, 0, 0, 1), Opt(INTERVAL_DEFAULT, <<>>, FALSE)>>,
      <<Hw(<<AmdDev(7, MI250, 8), AmdDev(7, MI250, 8)>>, <<>>, 0, 0, 0),
        Opt(INTERVAL_DEFAULT, <<>>, TRUE)>>,
      <<Hw(<<AmdDev(3, 0, 1), AmdDev(9, MI250, 1)>>, <<>>, 0, 0, 0), Opt(2, <<>>, FALSE)>>,
      <<Hw(<<>>, <<IntelDev(5, MAX1550), IntelDev(5, MAX1550)>>, 0, 0, 0),
        Opt(2, <<>>, FALSE)>>,
      <<Hw(<<>>, <<IntelDev(4, 0)>>, 1, 0, 0), Opt(1, <<>>, TRUE)>>,
      <<Hw(<<>>, <<>>, 0, 0, 0), Opt(1, <<3000, 3000>>, TRUE)>>,
      <<Hw(<<>>, <<>>, 0, 0, 0), Opt(UINT32_MAX, <<5, UINT32_MAX>>, TRUE)>>,
      <<Hw(<<>>, <<>>, 0, 0, 0), Opt(1, <<INT_MAX + 1, INT_MAX + 1>>, TRUE)>>,
      <<Hw(<<>>, <<>>, 0, 1, 0), Opt(0, <<7>>, TRUE)>>,
      <<[Hw(<<>>, <<>>, 0, 0, 0) EXCEPT !.intel_driver = TRUE], Opt(2, <<7>>, FALSE)>> }

\* the memset of every *_init, with n_siblings units per group
Zeroed(n) == [u \in 1..n |-> Unit_t]

\* inputs of the collaborators
MsrRaw == {0, 5, 1029, TwoPow32 - 1}
MsrUnits == {3, 2563}
GpuFirstRaw == {0, 1000000}
AmdDeltas == {0, 125000000}
GpuDeltas == {0, 999999, 5000000}
GarbageRaw == {0, 1, TwoPow64 - 1}
TsFirst == <<100, 500000000>>
TsDeltas == {<<10, 0>>, <<9, 999999999>>}
BusyPairs == {<<60, 40>>, <<0, 100>>}
Roundings == {-1, 0, 1}
NodePowers == {-5, 0, 300, 3000}

NoEv ==
    [op |-> "none", g |-> "", u |-> 0, first |-> FALSE, err |-> FALSE,
     fetch |-> "", power |-> 0,
     node_power |-> 0, power_interval |-> 0, overhead_interval |-> 0]

UnitEv(op, g, u, first) == [NoEv EXCEPT !.op = op, !.g = g, !.u = u, !.first = first]

NoProbe == [op |-> "none"]

\* the global _zes_drivers once intel_gpu_init has returned: never allocated,
\* allocated, or freed by the clean-up of intel_gpu_init when no device was found
_zes_drivers ==
    IF ~hw.intel_driver THEN "NULL"
    ELSE IF Len(hw.intel) = 0 THEN "freed" ELSE "allocated"

\* fclose(unit->energy_fd); closing a stream that is not open is undefined
fclose(unit) ==
    [unit EXCEPT !.energy_fd = IF @ = "open" THEN "closed" ELSE "invalid"]

\* cpu_fini, dram_fini, mock_fini and the loops of the *_gpu_fini
component_fini(siblings) == [u \in DOMAIN siblings |-> fclose(siblings[u])]

\* fini() as far as the first n groups
fini(comps, n) ==
    [g \in DOMAIN comps |->
        IF \E i \in 1..n : Interfaces[i] = g THEN component_fini(comps[g]) ELSE comps[g]]

\* what free(_zes_drivers) of intel_gpu_fini can do: free of a pointer already
\* freed is undefined, the allocator aborts or goes on
FreeOutcomes == IF _zes_drivers = "freed" THEN {"abort", "return"} ELSE {"return"}

\* nothing done yet in this cycle of the loop of main
NoCycleLog == [updated |-> {}, overhead_runs |-> 0]

Init ==
    /\ \E c \in Configs :
          /\ hw = c[1]
          /\ ec = [interval |-> c[2].interval, mock_watts |-> c[2].mock_watts,
                   n_mocks |-> Len(c[2].mock_watts), power_cmd |-> c[2].power_cmd,
                   overhead |-> [min |-> INT_MAX, max |-> 0, mov_average |-> 0,
                                 n_samples |-> 0]]
          /\ components = [g \in {Interfaces[i] : i \in 1..INTERFACES_MAX} |->
                CASE g = "AMD_GPUS" -> Zeroed(Len(c[1].amd))
                  [] g = "INTEL_GPUS" -> Zeroed(Len(c[1].intel))
                  [] g = "NVIDIA_GPUS" -> Zeroed(c[1].nvidia)
                  [] g = "CPUS" -> Zeroed(c[1].cpus)
                  [] g = "DRAMS" -> Zeroed(c[1].drams)
                  [] OTHER -> Zeroed(Len(c[2].mock_watts))]
    /\ pc = "init"
    /\ pos = 1
    /\ cycle = 0
    /\ status = "running"
    /\ samples = [g \in DOMAIN components |-> [u \in DOMAIN components[g] |-> 0]]
    /\ acc_sum = [g \in DOMAIN components |-> [u \in DOMAIN components[g] |-> 0]]
    /\ res_fetches = [g \in DOMAIN components |-> [u \in DOMAIN components[g] |-> 0]]
    /\ ev = NoEv
    /\ cycle_log = NoCycleLog
    /\ probe = NoProbe

(***************************************************************************)
(* The order in which init and the loop of main visit the units            *)
(***************************************************************************)
RECURSIVE PosFrom(_)
PosFrom(i) ==
    IF i > INTERFACES_MAX THEN <<>>
    ELSE [u \in 1..Len(components[Interfaces[i]]) |-> <<Interfaces[i], u>>] \o PosFrom(i + 1)

PosSeq == PosFrom(1)
CurG == PosSeq[pos][1]
CurU == PosSeq[pos][2]
At(phase, g) == pc = phase /\ status = "running" /\ pos <= Len(PosSeq) /\ CurG = g

\* as Advance, with compute_overhead entered whether or not a command is configured
AdvanceOverheadUnconditional ==
    IF pos < Len(PosSeq)
    THEN pc' = pc /\ pos' = pos + 1
    ELSE /\ pos' = 1
         /\ pc' = IF pc = "init" THEN "update" ELSE "overhead"

\* the loop moves to the next unit, or the phase ends
Advance ==
    IF pos < Len(PosSeq)
    THEN pc' = pc /\ pos' = pos + 1
    ELSE /\ pos' = 1
         /\ pc' = IF pc = "init" THEN "update"
                  ELSE IF ec.power_cmd THEN "overhead" ELSE "sleep"

Sampled(g, u) == [samples EXCEPT ![g][u] = Min(@ + 1, 2)]

\* energy_resolution of the unit is assigned in this step if assigned holds
Fetched(g, u, assigned) ==
    IF assigned THEN [res_fetches EXCEPT ![g][u] = Min(@ + 1, 2)] ELSE res_fetches

\* the update of unit u of group g returned in this cycle
Updated(g, u) == [cycle_log EXCEPT !.updated = @ \cup {<<g, u>>}]

\* compute_overhead was entered in this cycle
OverheadRun == [cycle_log EXCEPT !.overhead_runs = Min(@ + 1, 2)]

Terminate(how) == pc' = "exit" /\ status' = how /\ pos' = pos

(***************************************************************************)
(* init(): one step per unit, in the order of the *_init calls             *)
(***************************************************************************)
amd_gpu_init_unit ==
    /\ At("init", "AMD_GPUS")
    /\ \E raw \in GpuFirstRaw :
          LET d == hw.amd[CurU]
              s1 == amd_discover(components["AMD_GPUS"], CurU, d.serial, d.model, 16 + CurU)
              dev == _amd_device_fetch_energy(s1[CurU], raw, d.resolution, TsFirst)
          IN  components' = [components EXCEPT !["AMD_GPUS"] =
                                [s1 EXCEPT ![CurU] = [dev EXCEPT !.energy_fd = "open"]]]
    /\ samples' = Sampled("AMD_GPUS", CurU)
    /\ ev' = UnitEv("amd_gpu_init", "AMD_GPUS", CurU, TRUE)
    /\ Advance
    /\ res_fetches' = Fetched("AMD_GPUS", CurU, TRUE)
    /\ UNCHANGED <<hw, ec, cycle, status, acc_sum, probe, cycle_log>>

intel_gpu_init_unit ==
    /\ At("init", "INTEL_GPUS")
    /\ components' = [components EXCEPT !["INTEL_GPUS"] =
          intel_discover(@, CurU, hw.intel[CurU].bus_id, hw.intel[CurU].model)]
    /\ ev' = UnitEv("intel_gpu_init", "INTEL_GPUS", CurU, FALSE)
    /\ Advance
    /\ UNCHANGED <<hw, ec, cycle, status, samples, acc_sum, res_fetches, probe, cycle_log>>

nvidia_gpu_init_unit ==
    /\ At("init", "NVIDIA_GPUS")
    /\ components' = [components EXCEPT !["NVIDIA_GPUS"][CurU] =
          [@ EXCEPT !.id = CurU - 1, !.bus_id = 32 + CurU, !.energy_fd = "open"]]
    /\ ev' = UnitEv("nvidia_gpu_init", "NVIDIA_GPUS", CurU, FALSE)
    /\ Advance
    /\ UNCHANGED <<hw, ec, cycle, status, samples, acc_sum, res_fetches, probe, cycle_log>>

cpu_init_unit ==
    /\ At("init", "CPUS")
    /\ \E raw \in MsrRaw, msr_unit \in MsrUnits :
          LET package == [components["CPUS"][CurU] EXCEPT !.id = CurU - 1]
              fetched == _cpu_package_fetch_energy(package, raw, msr_unit)
          IN  components' = [components EXCEPT !["CPUS"][CurU] =
                                [fetched EXCEPT !.energy_fd = "open"]]
    /\ samples' = Sampled("CPUS", CurU)
    /\ ev' = UnitEv("cpu_init", "CPUS", CurU, TRUE)
    /\ Advance
    /\ res_fetches' = Fetched("CPUS", CurU, ~ResolutionKnown(components["CPUS"][CurU].energy_resolution))
    /\ UNCHANGED <<hw, ec, cycle, status, acc_sum, probe, cycle_log>>

dram_init_unit ==
    /\ At("init", "DRAMS")
    /\ \E raw \in MsrRaw, msr_unit \in MsrUnits :
          LET package == [components["DRAMS"][CurU] EXCEPT !.id = CurU - 1]
              fetched == _dram_package_fetch_energy(package, raw, msr_unit)
          IN  components' = [components EXCEPT !["DRAMS"][CurU] =
                                [fetched EXCEPT !.energy_fd = "open"]]
    /\ samples' = Sampled("DRAMS", CurU)
    /\ ev' = UnitEv("dram_init", "DRAMS", CurU, TRUE)
    /\ Advance
    /\ res_fetches' = Fetched("DRAMS", CurU, ~ResolutionKnown(components["DRAMS"][CurU].energy_resolution))
    /\ UNCHANGED <<hw, ec, cycle, status, acc_sum, probe, cycle_log>>

mock_init ==
    /\ At("init", "MOCKS")
    /\ components' = [components EXCEPT !["MOCKS"][CurU] =
          mock_init_unit(@, CurU, ec.mock_watts[CurU], ec.interval)]
    /\ ev' = UnitEv("mock_init", "MOCKS", CurU, FALSE)
    /\ Advance
    /\ UNCHANGED <<hw, ec, cycle, status, samples, acc_sum, res_fetches, probe, cycle_log>>

\* a read or an fopen of an *_init fails: exit(EXIT_FAILURE)
init_fails ==
    /\ pc = "init" /\ status = "running"
    /\ ev' = [NoEv EXCEPT !.op = "init_fails", !.err = TRUE]
    /\ Terminate("EXIT_FAILURE")
    /\ UNCHANGED <<hw, ec, components, cycle, samples, acc_sum, res_fetches, probe, cycle_log>>

(***************************************************************************)
(* The loop of main: one step per unit update                              *)
(***************************************************************************)
\* the raw values a GPU counter can show after last_energy_raw
NextRaw(last_energy_raw, deltas) ==
    IF last_energy_raw = 0 THEN GpuFirstRaw ELSE {last_energy_raw + d : d \in deltas}

\* a raw value below last_energy_raw, for a counter that ran backwards
LowerRaw(last_energy_raw) ==
    IF last_energy_raw > 0 THEN {last_energy_raw - 1} ELSE {}

\* _amd_device_update_files, dev->model != MI250
amd_gpu_update ==
    /\ At("update", "AMD_GPUS")
    /\ components["AMD_GPUS"][CurU].model # MI250
    /\ LET dev == components["AMD_GPUS"][CurU]
       IN  \E raw \in NextRaw(dev.energy_raw, AmdDeltas) \cup LowerRaw(dev.energy_raw) :
              /\ ~RawAssertFails(dev.energy_raw, raw)
              /\ components' = [components EXCEPT !["AMD_GPUS"][CurU] =
                    WriteFile(_amd_device_fetch_energy(dev, raw, hw.amd[CurU].resolution,
                                                       TsAdd(dev.timestamp, <<10, 0>>)))]
    /\ samples' = Sampled("AMD_GPUS", CurU)
    /\ ev' = UnitEv("amd_gpu_update", "AMD_GPUS", CurU, samples["AMD_GPUS"][CurU] = 0)
    /\ Advance
    /\ res_fetches' = Fetched("AMD_GPUS", CurU, TRUE)
    /\ UNCHANGED <<hw, ec, cycle, status, acc_sum, probe>>
    /\ cycle_log' = Updated("AMD_GPUS", CurU)

\* _amd_device_update_files, dev->model == MI250 and dev->peer != NULL
amd_gpu_update_mi250 ==
    /\ At("update", "AMD_GPUS")
    /\ components["AMD_GPUS"][CurU].model = MI250
    /\ components["AMD_GPUS"][CurU].peer # 0
    /\ LET dev == components["AMD_GPUS"][CurU]
       IN  \E raw \in NextRaw(dev.energy_raw, AmdDeltas) \cup LowerRaw(dev.energy_raw),
              dt \in TsDeltas, busy \in BusyPairs, rnd \in Roundings :
              LET s1 == _amd_device_fetch_energy_mi250(components["AMD_GPUS"], CurU,
                            busy[1], busy[2], raw, hw.amd[CurU].resolution,
                            TsAdd(dev.timestamp, dt), rnd, 0)
              IN  /\ ~RawAssertFails(dev.energy_raw, raw)
                  /\ components' = [components EXCEPT !["AMD_GPUS"] =
                                        [s1 EXCEPT ![CurU] = WriteFile(s1[CurU])]]
    /\ samples' = Sampled("AMD_GPUS", CurU)
    /\ ev' = UnitEv("amd_gpu_update_mi250", "AMD_GPUS", CurU, samples["AMD_GPUS"][CurU] = 0)
    /\ Advance
    /\ res_fetches' = Fetched("AMD_GPUS", CurU, TRUE)
    /\ UNCHANGED <<hw, ec, cycle, status, acc_sum, probe>>
    /\ cycle_log' = Updated("AMD_GPUS", CurU)

\* variant: an MI250 unit without a peer link is read like any other AMD unit
amd_gpu_update_mi250_later_computes ==
    /\ At("update", "AMD_GPUS")
    /\ components["AMD_GPUS"][CurU].model = MI250
    /\ components["AMD_GPUS"][CurU].peer = 0
    /\ LET dev == components["AMD_GPUS"][CurU]
       IN  \E raw \in NextRaw(dev.energy_raw, AmdDeltas) :
              components' = [components EXCEPT !["AMD_GPUS"][CurU] =
                  WriteFile(_amd_device_fetch_energy(dev, raw, hw.amd[CurU].resolution,
                                                     TsAdd(dev.timestamp, <<10, 0>>)))]
    /\ ev' = UnitEv("amd_gpu_update_mi250_later", "AMD_GPUS", CurU, FALSE)
    /\ Advance
    /\ UNCHANGED <<hw, ec, cycle, status, samples, acc_sum, res_fetches, probe>>
    /\ cycle_log' = Updated("AMD_GPUS", CurU)

\* _amd_device_update_files, dev->model == MI250 and dev->peer == NULL
amd_gpu_update_mi250_later ==
    /\ At("update", "AMD_GPUS")
    /\ components["AMD_GPUS"][CurU].model = MI250
    /\ components["AMD_GPUS"][CurU].peer = 0
    /\ components' = [components EXCEPT !["AMD_GPUS"] =
          LET s1 == _amd_device_fetch_energy_mi250(@, CurU, 0, 0, 0, 0, <<0, 0>>, 0, 0)
          IN  [s1 EXCEPT ![CurU] = WriteFile(s1[CurU])]]
    /\ ev' = UnitEv("amd_gpu_update_mi250_later", "AMD_GPUS", CurU, FALSE)
    /\ Advance
    /\ UNCHANGED <<hw, ec, cycle, status, samples, acc_sum, res_fetches, probe>>
    /\ cycle_log' = Updated("AMD_GPUS", CurU)

\* rsmi_dev_energy_count_get or rsmi_dev_busy_percent_get reports an error
amd_read_fails ==
    /\ At("update", "AMD_GPUS")
    /\ ~(components["AMD_GPUS"][CurU].model = MI250 /\ components["AMD_GPUS"][CurU].peer = 0)
    /\ ev' = [UnitEv("amd_read_fails", "AMD_GPUS", CurU, FALSE) EXCEPT !.err = TRUE]
    /\ Terminate("EXIT_FAILURE")
    /\ UNCHANGED <<hw, ec, components, cycle, samples, acc_sum, res_fetches, probe, cycle_log>>

\* the counter read is below the previous one: the assert aborts
amd_raw_decreases ==
    /\ At("update", "AMD_GPUS")
    /\ ~(components["AMD_GPUS"][CurU].model = MI250 /\ components["AMD_GPUS"][CurU].peer = 0)
    /\ \E raw \in LowerRaw(components["AMD_GPUS"][CurU].energy_raw) :
          /\ RawAssertFails(components["AMD_GPUS"][CurU].energy_raw, raw)
          /\ components' = [components EXCEPT !["AMD_GPUS"][CurU].energy_raw = raw]
    /\ samples' = Sampled("AMD_GPUS", CurU)
    /\ ev' = [UnitEv("amd_raw_decreases", "AMD_GPUS", CurU, FALSE) EXCEPT !.err = TRUE]
    /\ Terminate("SIGABRT")
    /\ res_fetches' = Fetched("AMD_GPUS", CurU, components["AMD_GPUS"][CurU].model = MI250)
    /\ UNCHANGED <<hw, ec, cycle, acc_sum, probe, cycle_log>>

\* _intel_device_update_files; a failed zesPowerGetEnergyCounter is reported and the
\* uninitialised energy_counter.energy is used
intel_gpu_update ==
    /\ At("update", "INTEL_GPUS")
    /\ LET dev == components["INTEL_GPUS"][CurU]
       IN  \E ok \in BOOLEAN :
           \E raw \in (IF ok THEN NextRaw(dev.energy_raw, GpuDeltas) \cup LowerRaw(dev.energy_raw)
                             ELSE GarbageRaw) :
              /\ dev.energy_raw = 0 \/ ~RawAssertFails(dev.energy_raw, raw)
              /\ components' = [components EXCEPT !["INTEL_GPUS"][CurU] =
                                    _intel_device_update_files(dev, raw)]
              /\ ev' = [UnitEv("intel_gpu_update", "INTEL_GPUS", CurU,
                               samples["INTEL_GPUS"][CurU] = 0) EXCEPT !.err = ~ok]
    /\ samples' = Sampled("INTEL_GPUS", CurU)
    /\ Advance
    /\ UNCHANGED <<hw, ec, cycle, status, acc_sum, res_fetches, probe>>
    /\ cycle_log' = Updated("INTEL_GPUS", CurU)

nvidia_gpu_update ==
    /\ At("update", "NVIDIA_GPUS")
    /\ LET dev == components["NVIDIA_GPUS"][CurU]
       IN  \E raw \in NextRaw(dev.energy_raw, GpuDeltas) \cup LowerRaw(dev.energy_raw) :
              /\ dev.energy_raw = 0 \/ ~RawAssertFails(dev.energy_raw, raw)
              /\ components' = [components EXCEPT !["NVIDIA_GPUS"][CurU] =
                                    _nvidia_device_update_files(dev, raw)]
    /\ samples' = Sampled("NVIDIA_GPUS", CurU)
    /\ ev' = UnitEv("nvidia_gpu_update", "NVIDIA_GPUS", CurU, samples["NVIDIA_GPUS"][CurU] = 0)
    /\ Advance
    /\ UNCHANGED <<hw, ec, cycle, status, acc_sum, res_fetches, probe>>
    /\ cycle_log' = Updated("NVIDIA_GPUS", CurU)

\* Intel or NVIDIA: the counter read is below the previous non-zero one
gpu_raw_decreases ==
    /\ \E g \in {"INTEL_GPUS", "NVIDIA_GPUS"} :
          /\ At("update", g)
          /\ \E raw \in LowerRaw(components[g][CurU].energy_raw) :
                /\ RawAssertFails(components[g][CurU].energy_raw, raw)
                /\ components' = [components EXCEPT ![g][CurU].energy_raw = raw]
          /\ samples' = Sampled(g, CurU)
          /\ ev' = [UnitEv("gpu_raw_decreases", g, CurU, FALSE) EXCEPT !.err = TRUE]
    /\ Terminate("SIGABRT")
    /\ UNCHANGED <<hw, ec, cycle, acc_sum, res_fetches, probe, cycle_log>>

\* a DCGM call of nvidia_gpu_update fails: nvidia_gpu_fini, exit(EXIT_FAILURE)
nvidia_update_fails ==
    /\ At("update", "NVIDIA_GPUS")
    /\ CurU = 1
    /\ components' = [components EXCEPT !["NVIDIA_GPUS"] = component_fini(@)]
    /\ ev' = [UnitEv("nvidia_update_fails", "NVIDIA_GPUS", 0, FALSE) EXCEPT !.err = TRUE]
    /\ Terminate("EXIT_FAILURE")
    /\ UNCHANGED <<hw, ec, cycle, samples, acc_sum, res_fetches, probe, cycle_log>>

cpu_update ==
    /\ At("update", "CPUS")
    /\ LET package == components["CPUS"][CurU]
       IN  \E raw \in MsrRaw :
           \E msr_unit \in (IF ResolutionKnown(package.energy_resolution) THEN {0} ELSE MsrUnits) :
              components' = [components EXCEPT !["CPUS"][CurU] =
                                _cpu_package_update_files(package, raw, msr_unit)]
    /\ samples' = Sampled("CPUS", CurU)
    /\ ev' = UnitEv("cpu_update", "CPUS", CurU, samples["CPUS"][CurU] = 0)
    /\ Advance
    /\ res_fetches' = Fetched("CPUS", CurU, ~ResolutionKnown(components["CPUS"][CurU].energy_resolution))
    /\ UNCHANGED <<hw, ec, cycle, status, acc_sum, probe>>
    /\ cycle_log' = Updated("CPUS", CurU)

dram_update ==
    /\ At("update", "DRAMS")
    /\ LET package == components["DRAMS"][CurU]
       IN  \E raw \in MsrRaw :
           \E msr_unit \in (IF ResolutionKnown(package.energy_resolution) THEN {0} ELSE MsrUnits) :
              components' = [components EXCEPT !["DRAMS"][CurU] =
                                _dram_package_update_files(package, raw, msr_unit)]
    /\ samples' = Sampled("DRAMS", CurU)
    /\ ev' = UnitEv("dram_update", "DRAMS", CurU, samples["DRAMS"][CurU] = 0)
    /\ Advance
    /\ res_fetches' = Fetched("DRAMS", CurU, ~ResolutionKnown(components["DRAMS"][CurU].energy_resolution))
    /\ UNCHANGED <<hw, ec, cycle, status, acc_sum, probe>>
    /\ cycle_log' = Updated("DRAMS", CurU)

\* read_msr cannot open or read the MSR file: exit(EXIT_FAILURE)
msr_read_fails ==
    /\ \E g \in {"CPUS", "DRAMS"} :
          /\ At("update", g)
          /\ ev' = [UnitEv("msr_read_fails", g, CurU, FALSE) EXCEPT !.err = TRUE]
    /\ Terminate("EXIT_FAILURE")
    /\ UNCHANGED <<hw, ec, components, cycle, samples, acc_sum, res_fetches, probe, cycle_log>>

mock_update ==
    /\ At("update", "MOCKS")
    /\ components' = [components EXCEPT !["MOCKS"][CurU] = _mock_update_files(@)]
    /\ samples' = Sampled("MOCKS", CurU)
    /\ ev' = UnitEv("mock_update", "MOCKS", CurU, samples["MOCKS"][CurU] = 0)
    /\ Advance
    /\ UNCHANGED <<hw, ec, cycle, status, acc_sum, res_fetches, probe>>
    /\ cycle_log' = Updated("MOCKS", CurU)

(***************************************************************************)
(* The rest of the loop of main                                            *)
(***************************************************************************)
compute_overhead ==
    /\ pc = "overhead" /\ status = "running"
    /\ ec.interval > 0
    /\ \E power \in NodePowers :
          /\ NodePowerValid(power)
          /\ LET node_power == U32(power)
                 power_interval == PowerInterval(components, ec.interval)
                 overhead_interval == OverheadInterval(power_interval, node_power)
             IN  /\ ec' = [ec EXCEPT !.overhead =
                              UpdateOverhead(@, power_interval, overhead_interval)]
                 /\ ev' = [NoEv EXCEPT !.op = "compute_overhead",
                                       !.fetch = "parsed", !.power = power,
                                       !.node_power = node_power,
                                       !.power_interval = power_interval,
                                       !.overhead_interval = overhead_interval]
    /\ pc' = "sleep"
    /\ UNCHANGED <<hw, components, pos, cycle, status, samples, acc_sum, res_fetches, probe>>
    /\ cycle_log' = OverheadRun

\* energy_interval / ec->interval with ec->interval == 0
compute_overhead_div0 ==
    /\ pc = "overhead" /\ status = "running"
    /\ ec.interval = 0
    /\ \E power \in NodePowers :
          /\ NodePowerValid(power)
          /\ ev' = [NoEv EXCEPT !.op = "compute_overhead_div0", !.err = TRUE,
                                !.fetch = "parsed", !.power = power,
                                !.node_power = U32(power)]
    /\ Terminate("SIGFPE")
    /\ UNCHANGED <<hw, ec, components, cycle, samples, acc_sum, res_fetches, probe>>
    /\ cycle_log' = OverheadRun

\* fetch_node_power: popen fails, fgets reads no output, or strtol gives a power
\* that is not valid (0 for a text that is not a number)
node_power_fails ==
    /\ pc = "overhead" /\ status = "running"
    /\ \E fetch \in FetchOutcomes, power \in NodePowers :
          /\ IF fetch = "parsed" THEN ~NodePowerValid(power) ELSE power = 0
          /\ ev' = [NoEv EXCEPT !.op = "node_power_fails", !.err = TRUE,
                                !.fetch = fetch, !.power = power]
    /\ Terminate("EXIT_FAILURE")
    /\ UNCHANGED <<hw, ec, components, cycle, samples, acc_sum, res_fetches, probe>>
    /\ cycle_log' = OverheadRun

\* sleep(ec_g.interval) returns: the cycle is over
sleep ==
    /\ pc = "sleep" /\ status = "running"
    /\ cycle < MaxCycles
    /\ cycle' = cycle + 1
    /\ acc_sum' = [g \in DOMAIN components |-> [u \in DOMAIN components[g] |->
                      acc_sum[g][u] + components[g][u].energy_interval]]
    /\ pc' = "update"
    /\ pos' = 1
    /\ ev' = [NoEv EXCEPT !.op = "sleep"]
    /\ UNCHANGED <<hw, ec, components, status, samples, res_fetches, probe>>
    /\ cycle_log' = NoCycleLog

\* SIGTERM is delivered once the handler is installed: fini, exit(0)
sigterm_handler ==
    /\ pc \in {"update", "overhead", "sleep"} /\ status = "running"
    /\ \E free \in FreeOutcomes :
          IF free = "abort"
          THEN /\ components' = fini(components, 2)
               /\ Terminate("SIGABRT")
          ELSE /\ components' = fini(components, INTERFACES_MAX)
               /\ Terminate("EXIT_SUCCESS")
    /\ ev' = [NoEv EXCEPT !.op = "sigterm_handler"]
    /\ UNCHANGED <<hw, ec, cycle, samples, acc_sum, res_fetches, probe, cycle_log>>

Next ==
    \/ amd_gpu_init_unit \/ intel_gpu_init_unit \/ nvidia_gpu_init_unit
    \/ cpu_init_unit \/ dram_init_unit \/ mock_init \/ init_fails
    \/ amd_gpu_update \/ amd_gpu_update_mi250 \/ amd_gpu_update_mi250_later
    \/ amd_read_fails \/ amd_raw_decreases
    \/ intel_gpu_update \/ nvidia_gpu_update \/ gpu_raw_decreases \/ nvidia_update_fails
    \/ cpu_update \/ dram_update \/ msr_read_fails \/ mock_update
    \/ compute_overhead \/ compute_overhead_div0 \/ node_power_fails
    \/ sleep \/ sigterm_handler

Spec == Init /\ [][Next]_vars

(***************************************************************************)
(* Properties of the process (specification Spec)                          *)
(***************************************************************************)
AllUnits == {gu \in (DOMAIN components) \X (1..N_SIBLINGS_MAX) : gu[2] \in DOMAIN components[gu[1]]}

UnitAt(gu) == components[gu[1]][gu[2]]

\* C1: energy_acc of every unit of every group is 0 when the process starts, and no
\* step of the process (an update of any unit included) makes it smaller.
C1_AccStartsAtZeroNeverDecreases ==
    /\ \A gu \in AllUnits : UnitAt(gu).energy_acc = 0
    /\ [][\A gu \in AllUnits : UnitAt(gu)'.energy_acc >= UnitAt(gu).energy_acc]_vars

\* a CPU package read in two cycles whose energy_acc grew in both
C1_Witness ==
    /\ cycle >= 1
    /\ ev.op = "cpu_update"
    /\ UnitAt(<<"CPUS", 1>>).energy_interval > 0
    /\ UnitAt(<<"CPUS", 1>>).energy_acc > UnitAt(<<"CPUS", 1>>).energy_interval

\* C2: when a cycle ends, energy_acc of every unit is the sum of the energy_interval
\* values the unit held at the end of each cycle so far; every step that changes a
\* unit's energy_acc adds exactly the energy_interval the unit then holds.
C2_AccIsSumOfIntervals ==
    [][/\ ev'.op = "sleep" =>
             \A gu \in AllUnits : UnitAt(gu)'.energy_acc = acc_sum'[gu[1]][gu[2]]
       /\ \A gu \in AllUnits :
             UnitAt(gu)'.energy_acc # UnitAt(gu).energy_acc =>
                UnitAt(gu)'.energy_acc = UnitAt(gu).energy_acc + UnitAt(gu)'.energy_interval]_vars

\* two cycles are over and some unit accumulated a non-zero interval in each
C2_Witness ==
    /\ ev.op = "sleep" /\ cycle >= 2
    /\ \E gu \in AllUnits :
          /\ UnitAt(gu).energy_interval > 0
          /\ UnitAt(gu).energy_acc > UnitAt(gu).energy_interval
          /\ UnitAt(gu).energy_acc = acc_sum[gu[1]][gu[2]]

\* C4 as stated: the first sample of any unit, a mock unit's first update included,
\* leaves energy_interval at 0 and energy_acc at its initial 0.
C4_FirstSampleOfAnyUnitIsZero ==
    ev.first =>
        /\ UnitAt(<<ev.g, ev.u>>).energy_interval = 0
        /\ UnitAt(<<ev.g, ev.u>>).energy_acc = 0

\* C4: the first raw read of a hardware unit (CPU, DRAM, AMD, Intel or NVIDIA GPU)
\* leaves its energy_interval at 0 and its energy_acc unchanged; the first update of
\* a mock unit adds its fixed energy_interval, (fixed_watts * interval) mod 2^32, to
\* energy_acc.
C4_FirstHardwareSampleIsZero ==
    [][ev'.first =>
          LET before == components[ev'.g][ev'.u]
              after == components'[ev'.g][ev'.u]
          IN  IF ev'.g = "MOCKS"
              THEN /\ after.energy_interval = U32(after.fixed_watts * ec.interval)
                   /\ after.energy_acc = before.energy_acc + after.energy_interval
              ELSE /\ after.energy_interval = 0
                   /\ after.energy_acc = before.energy_acc]_vars

\* the first read of a GPU counter returned a non-zero raw value
C4_Witness ==
    /\ ev.first
    /\ ev.g \in {"AMD_GPUS", "INTEL_GPUS", "NVIDIA_GPUS"}
    /\ UnitAt(<<ev.g, ev.u>>).energy_raw > 0
    /\ UnitAt(<<ev.g, ev.u>>).energy_interval = 0

\* the accounting fields of a unit
Accounting(unit) == <<unit.energy_raw, unit.energy_interval, unit.energy_acc>>

\* C7: for every MI250 holder i with peer j: the holder's update adds to both
\* energy_acc values their new energy_interval; the update of the later unit j
\* changes neither unit's energy_raw, energy_interval or energy_acc; and no other
\* step of a cycle changes the energy_interval or energy_acc of either die, so each
\* energy_acc is incremented once per cycle.
C7_PairAccountedByHolderOnly ==
    [][\A i \in DOMAIN components["AMD_GPUS"] :
          LET amd == components["AMD_GPUS"]
              amd_after == components'["AMD_GPUS"]
              j == amd[i].peer
          IN  (amd[i].model = MI250 /\ j # 0 /\ pc = "update") =>
                 /\ (ev'.op = "amd_gpu_update_mi250" /\ ev'.u = i) =>
                       /\ amd_after[i].energy_acc = amd[i].energy_acc + amd_after[i].energy_interval
                       /\ amd_after[j].energy_acc = amd[j].energy_acc + amd_after[j].energy_interval
                 /\ (ev'.op = "amd_gpu_update_mi250_later" /\ ev'.u = j) =>
                       /\ Accounting(amd_after[i]) = Accounting(amd[i])
                       /\ Accounting(amd_after[j]) = Accounting(amd[j])
                 /\ (\E k \in {i, j} :
                        \/ amd_after[k].energy_acc # amd[k].energy_acc
                        \/ amd_after[k].energy_interval # amd[k].energy_interval) =>
                       (ev'.op = "amd_gpu_update_mi250" /\ ev'.u = i)]_vars

\* the later unit of a pair was just updated, its energy_acc holding what the
\* holder's update of this cycle gave it
C7_Witness ==
    /\ ev.op = "amd_gpu_update_mi250_later"
    /\ UnitAt(<<"AMD_GPUS", ev.u>>).energy_interval > 0
    /\ UnitAt(<<"AMD_GPUS", ev.u>>).energy_acc = acc_sum["AMD_GPUS"][ev.u]
                                                  + UnitAt(<<"AMD_GPUS", ev.u>>).energy_interval
    /\ \E i \in DOMAIN components["AMD_GPUS"] : components["AMD_GPUS"][i].peer = ev.u

\* C8 as stated: energy_resolution of a CPU, DRAM or AMD GPU unit is assigned at
\* most once in the lifetime of the process.
C8_ResolutionAssignedAtMostOnce ==
    \A gu \in AllUnits :
        gu[1] \in {"CPUS", "DRAMS", "AMD_GPUS"} => res_fetches[gu[1]][gu[2]] <= 1

\* what C8 says of a unit in one state
ResolutionSettled ==
    \A gu \in AllUnits :
        /\ gu[1] \in {"CPUS", "DRAMS"} =>
              /\ res_fetches[gu[1]][gu[2]] <= 1
              /\ samples[gu[1]][gu[2]] >= 1 =>
                    /\ res_fetches[gu[1]][gu[2]] = 1
                    /\ UnitAt(gu).energy_resolution[1] > 0
                    /\ UnitAt(gu).energy_resolution[2] > 0
        /\ (gu[1] = "AMD_GPUS" /\ status = "running") =>
              res_fetches[gu[1]][gu[2]] = samples[gu[1]][gu[2]]

\* C8: energy_resolution of a CPU or DRAM unit is fetched and assigned once, at the
\* unit's first raw read; it is then strictly positive and no later step changes
\* it.  energy_resolution of an AMD GPU unit is assigned again at every raw read of
\* the unit that the process continues after.
C8_ResolutionFetchedOnceForMsrUnits ==
    /\ ResolutionSettled
    /\ [][/\ ResolutionSettled'
          /\ \A gu \in AllUnits :
                (gu[1] \in {"CPUS", "DRAMS"} /\ UnitAt(gu).energy_resolution[1] > 0) =>
                   UnitAt(gu)'.energy_resolution = UnitAt(gu).energy_resolution]_vars

\* a CPU package read in init and in two cycles, its resolution fetched once
C8_Witness ==
    /\ cycle >= 1
    /\ ev.op = "cpu_update"
    /\ samples["CPUS"][1] = 2
    /\ res_fetches["CPUS"][1] = 1
    /\ UnitAt(<<"CPUS", 1>>).energy_resolution = PowHalf(10)

RECURSIVE SumOfIntervals(_)
\* the sum of the energy_interval of a sequence of units, as a number
SumOfIntervals(siblings) ==
    IF siblings = <<>> THEN 0
    ELSE Head(siblings).energy_interval + SumOfIntervals(Tail(siblings))

\* the sum of every unit's energy_interval over all component groups, as a number
MeasuredEnergy ==
    SumOfIntervals(components["AMD_GPUS"]) + SumOfIntervals(components["INTEL_GPUS"])
    + SumOfIntervals(components["NVIDIA_GPUS"]) + SumOfIntervals(components["CPUS"])
    + SumOfIntervals(components["DRAMS"]) + SumOfIntervals(components["MOCKS"])

\* C9: the overhead of a compute_overhead sample is max(P_node - P_measured, 0) with
\* P_measured = floor(sum of every unit's energy_interval / interval); it is 0
\* whenever P_measured >= P_node.
C9_OverheadIsClampedDifference ==
    ev.op = "compute_overhead" =>
        LET P_measured == MeasuredEnergy \div ec.interval
        IN  ev.overhead_interval = Max(ev.node_power - P_measured, 0)

\* C10: a compute_overhead call whose P_measured is 0 leaves min, max, mov_average
\* and n_samples of the overhead as they were.
C10_ZeroPowerSampleLeavesStatistics ==
    [][(ev'.op = "compute_overhead" /\ ec.interval > 0
        /\ (ev'.power_interval = 0 \/ MeasuredEnergy \div ec.interval = 0)) =>
          /\ ev'.power_interval = 0
          /\ ec'.overhead = ec.overhead]_vars

\* statistics already hold a sample and a later sample measured no power
C10_Witness ==
    /\ ev.op = "compute_overhead"
    /\ ev.power_interval = 0
    /\ ev.overhead_interval > 0
    /\ ec.overhead.n_samples = 1
    /\ ec.overhead.max < ev.overhead_interval

\* C11: a compute_overhead call whose measured power is not 0 sets min to the
\* smaller of min and the sample's overhead, max to the larger of max and the
\* overhead, mov_average to (mov_average * n_samples + overhead) / (n_samples + 1)
\* with the old n_samples, and adds one to n_samples.
C11_StatisticsUpdatedByFormula ==
    [][(ev'.op = "compute_overhead" /\ ev'.power_interval > 0) =>
          LET old == ec.overhead
              overhead == ev'.overhead_interval
          IN  ec'.overhead =
                 [min |-> Min(old.min, overhead),
                  max |-> Max(old.max, overhead),
                  mov_average |-> ((old.mov_average * old.n_samples) + overhead)
                                     \div (old.n_samples + 1),
                  n_samples |-> old.n_samples + 1]]_vars

\* C12: overhead.min starts high enough (at the largest uint32_t value) that after
\* the first sample that is not skipped it equals that sample's overhead, whatever
\* node power fetch_node_power returned.
C12_FirstSampleSetsMin ==
    (ev.op = "compute_overhead" /\ ev.power_interval > 0 /\ ec.overhead.n_samples = 1) =>
        ec.overhead.min = ev.overhead_interval

\* C13: the estimator is uninitialized while n_samples = 0 and warm afterwards. It
\* becomes warm exactly at the first compute_overhead sample whose P_measured (the
\* sum of every unit's energy_interval over the interval) is above 0, and never
\* becomes uninitialized again; once warm, n_samples never decreases, min never
\* increases and max never decreases.
C13_WarmAtFirstMeasuredSample ==
    [][LET old == ec.overhead
           new == ec'.overhead
           sample == ev'.op = "compute_overhead"
           P_measured == MeasuredEnergy \div ec.interval
       IN  /\ (old.n_samples = 0 /\ sample /\ P_measured > 0) => new.n_samples > 0
           /\ (old.n_samples = 0 /\ ~(sample /\ P_measured > 0)) => new.n_samples = 0
           /\ old.n_samples > 0 =>
                 /\ new.n_samples >= old.n_samples
                 /\ new.min <= old.min
                 /\ new.max >= old.max]_vars

\* the steps of compute_overhead, the node-power probe included
OverheadOps == {"compute_overhead", "compute_overhead_div0", "node_power_fails"}

\* C14: in every cycle compute_overhead (with its node-power probe) runs at most
\* once, only when a node-power command is configured, only after the update of
\* every unit of every group returned in this cycle, and before the sleep: no unit
\* is updated after it in the cycle, and the sleep of a cycle with a command
\* configured follows exactly one run.
C14_OverheadOncePerCycleAfterUpdates ==
    [][/\ ev'.op \in OverheadOps =>
             /\ ec.power_cmd
             /\ cycle_log.updated = AllUnits
             /\ cycle_log.overhead_runs = 0
             /\ pc' \in {"sleep", "exit"}
       /\ (pc = "update" /\ ev'.op # "sigterm_handler") => cycle_log.overhead_runs = 0
       /\ ev'.op = "sleep" =>
             /\ cycle_log.updated = AllUnits
             /\ cycle_log.overhead_runs = (IF ec.power_cmd THEN 1 ELSE 0)]_vars

\* compute_overhead ran in the second cycle, after both units were updated
C14_Witness ==
    /\ ev.op = "compute_overhead"
    /\ cycle = 1
    /\ Cardinality(AllUnits) = 2
    /\ cycle_log.updated = AllUnits
    /\ cycle_log.overhead_runs = 1
    /\ pc = "sleep"

\* the steps in which a read of a raw counter can report an error
RawReadOps ==
    {"init_fails", "msr_read_fails", "amd_read_fails", "intel_gpu_update", "nvidia_update_fails"}

\* C15: for CPU, DRAM, AMD, Intel and NVIDIA units alike, a raw counter read that
\* reports an error terminates the process in that step, and no unit's energy_raw,
\* energy_interval or energy_acc is updated from the failed read.
C15_ReadErrorTerminates ==
    [][(ev'.err /\ ev'.op \in RawReadOps) =>
          /\ status' # "running"
          /\ \A gu \in AllUnits :
                /\ UnitAt(gu)'.energy_raw = UnitAt(gu).energy_raw
                /\ UnitAt(gu)'.energy_interval = UnitAt(gu).energy_interval
                /\ UnitAt(gu)'.energy_acc = UnitAt(gu).energy_acc]_vars

\* the groups whose update asserts that the raw counter did not run backwards
GpuGroups == {"AMD_GPUS", "INTEL_GPUS", "NVIDIA_GPUS"}

\* C16: for an AMD, Intel or NVIDIA unit, a raw reading lower than the unit's
\* previous non-zero raw reading terminates the process (the assertion aborts it)
\* with the unit's energy_interval and energy_acc not updated.
C16_LowerRawAborts ==
    [][\A gu \in AllUnits :
          (/\ gu[1] \in GpuGroups
           /\ UnitAt(gu).energy_raw > 0
           /\ UnitAt(gu)'.energy_raw < UnitAt(gu).energy_raw) =>
             /\ status' = "SIGABRT"
             /\ UnitAt(gu)'.energy_interval = UnitAt(gu).energy_interval
             /\ UnitAt(gu)'.energy_acc = UnitAt(gu).energy_acc]_vars

\* a GPU that had accumulated energy showed a lower raw counter and the process
\* was aborted
C16_Witness ==
    /\ ev.op \in {"amd_raw_decreases", "gpu_raw_decreases"}
    /\ status = "SIGABRT"
    /\ components[ev.g][ev.u].energy_acc > 0
    /\ components[ev.g][ev.u].energy_raw > 0

\* C17: when the node-power probe cannot be run, gives no output, or gives an
\* output that parses to a value <= 0 (a text that is not a number parses to 0),
\* the process terminates with a failure status and min, max, mov_average and
\* n_samples of the overhead are as they were before the step.
C17_ProbeFailureTerminatesBeforeStatistics ==
    [][(/\ ev'.op \in OverheadOps
        /\ \/ ev'.fetch \in {"popen", "no_output"}
           \/ ev'.fetch = "parsed" /\ ev'.power <= 0) =>
          /\ status' = "EXIT_FAILURE"
          /\ ec'.overhead = ec.overhead]_vars

\* the probe printed a value that is not positive after a sample had been taken
C17_Witness ==
    /\ ev.op = "node_power_fails"
    /\ ev.fetch = "parsed"
    /\ ev.power <= 0
    /\ status = "EXIT_FAILURE"
    /\ ec.overhead.n_samples = 1

\* C18: when SIGTERM is delivered to the running loop, fini runs for every group,
\* every output file opened at init is closed exactly once, and the process
\* exits with status 0.
C18_SigtermClosesEveryFileAndExitsZero ==
    [][ev'.op = "sigterm_handler" =>
          /\ status' = "EXIT_SUCCESS"
          /\ \A gu \in AllUnits :
                UnitAt(gu).energy_fd = "open" => UnitAt(gu)'.energy_fd = "closed"]_vars

\* C19: shutdown begins only at the sleep between two cycles: the SIGTERM handler
\* never runs while the updates of the units (the MI250 pair with its two file
\* writes included) or compute_overhead of a cycle are still to be completed.
C19_HandlerRunsOnlyAtSleep ==
    [][ev'.op = "sigterm_handler" => pc = "sleep"]_vars

\* the groups whose update returns before it writes while the previous raw is 0
LateWriters == {"INTEL_GPUS", "NVIDIA_GPUS"}

\* C20 as stated: at the end of every cycle, the first included, the output file
\* of every unit of every group holds exactly "<energy_acc> Joules".
C20_EveryFileHoldsAccAtEndOfCycle ==
    pc = "sleep" =>
        \A gu \in AllUnits : UnitAt(gu).file = FormatJoules(UnitAt(gu).energy_acc)

\* C20: at the end of every cycle, the first included, the output file of every
\* CPU, DRAM, AMD and mock unit holds exactly "<energy_acc> Joules". The file of
\* an Intel or NVIDIA unit is empty, with energy_acc 0, until the first update
\* of the unit that follows a raw reading other than 0, and holds exactly
\* "<energy_acc> Joules" at the end of that cycle and of every later one.
C20_FileHoldsAccOnceWritten ==
    [][\A gu \in AllUnits :
          LET old == UnitAt(gu)
              new == UnitAt(gu)'
              updated == ev'.g = gu[1] /\ ev'.u = gu[2] /\ status' = "running"
          IN  /\ pc' = "sleep" =>
                    \/ new.file = FormatJoules(new.energy_acc)
                    \/ gu[1] \in LateWriters /\ new.file = <<>> /\ new.energy_acc = 0
              /\ (gu[1] \in LateWriters /\ updated /\ old.energy_raw # 0) =>
                    new.file = FormatJoules(new.energy_acc)
              /\ (gu[1] \in LateWriters /\ old.file = <<>> /\ old.energy_raw = 0) =>
                    new.file = <<>>]_vars

\* at the end of the second cycle the Intel unit's file holds its accumulated
\* energy while the NVIDIA unit, whose counter read 0 so far, has an empty file
C20_Witness ==
    /\ pc = "sleep"
    /\ cycle = 1
    /\ Len(components["INTEL_GPUS"]) = 1 /\ Len(components["NVIDIA_GPUS"]) = 1
    /\ components["INTEL_GPUS"][1].energy_acc > 0
    /\ components["INTEL_GPUS"][1].file = FormatJoules(components["INTEL_GPUS"][1].energy_acc)
    /\ components["NVIDIA_GPUS"][1].file = <<>>

\* C23: a mock unit created with W watts under an interval of I seconds has an
\* energy_interval of W * I in every cycle and an energy_acc of N * W * I at the
\* end of cycle N, for every W and I the options accept, those with a product of
\* 2^32 or more included.
C23_MockModelsFixedPower ==
    \A u \in DOMAIN components["MOCKS"] :
       LET mock == components["MOCKS"][u]
           W == ec.mock_watts[u]
           I == ec.interval
       IN  /\ mock.energy_fd = "open" => mock.energy_interval = W * I
           /\ ev.op = "sleep" => mock.energy_acc = cycle * W * I

\* the units that read a hardware counter
HardwareUnits == {gu \in AllUnits : gu[1] # "MOCKS"}

\* C24: every energy_interval that compute_overhead sums covers one configured
\* interval: for each hardware unit exactly one sleep lies between the raw read
\* that set the baseline and the raw read that produced the energy_interval, in
\* the first cycle after init too. So no unit has had its two raw reads by a
\* compute_overhead that no sleep has preceded, and in later cycles each unit
\* was read in the cycle of the sample.
C24_OneSleepBetweenBaselineAndRead ==
    ev.op = "compute_overhead" =>
        \A gu \in HardwareUnits :
           /\ samples[gu[1]][gu[2]] = 2 => cycle >= 1
           /\ gu \in cycle_log.updated

\* an MI250 unit that holds no peer link and is the target of none
LoneMi250(u) ==
    LET s == components["AMD_GPUS"]
    IN  /\ s[u].model = MI250
        /\ s[u].peer = 0
        /\ \A v \in DOMAIN s : s[v].peer # u

\* C25: an MI250 unit without a peer link computes no energy in its own update,
\* so an MI250 unit that holds no peer link and is the target of none keeps
\* energy_interval = 0 and energy_acc = 0 in every cycle, whatever its counter
\* reports.
C25_LoneMi250StaysAtZero ==
    \A u \in DOMAIN components["AMD_GPUS"] :
       LoneMi250(u) =>
          /\ components["AMD_GPUS"][u].energy_interval = 0
          /\ components["AMD_GPUS"][u].energy_acc = 0

\* a lone MI250 whose counter showed a value at init has been updated in three
\* cycles and its file holds 0 Joules
C25_Witness ==
    /\ ev.op = "amd_gpu_update_mi250_later"
    /\ cycle = MaxCycles
    /\ LoneMi250(ev.u)
    /\ components["AMD_GPUS"][ev.u].energy_raw > 0
    /\ components["AMD_GPUS"][ev.u].file = FormatJoules(0)

\* C26: whatever interval the options accepted, compute_overhead never divides by
\* zero: ec->interval > 0 whenever energy_interval / ec->interval is evaluated.
C26_IntervalPositiveAtDivision ==
    ev.op \in {"compute_overhead", "compute_overhead_div0"} =>
        /\ ec.interval > 0
        /\ status # "SIGFPE"

\* C27: once the estimator is warm (n_samples > 0), overhead.min <=
\* overhead.mov_average <= overhead.max after every sequence of samples, the
\* running average being computed in 32-bit unsigned arithmetic.
C27_AverageBetweenMinAndMax ==
    ec.overhead.n_samples > 0 =>
        /\ ec.overhead.min <= ec.overhead.mov_average
        /\ ec.overhead.mov_average <= ec.overhead.max

(***************************************************************************)
(* ProbeDelta: one call of _cpu_package_update_files or                    *)
(* _dram_package_update_files on a package whose energy_raw holds any      *)
(* value read_msr can return, with any value read next.  read_msr returns  *)
(* the 64 bits pread stored, unmasked.                                     *)
(***************************************************************************)
MsrWide == MsrRaw \cup {TwoPow32, TwoPow32 + 1, TwoPow64 - 1}

\* the variables of the process, unused while a single operation is probed
ProbeFrame ==
    /\ hw = Hw(<<>>, <<>>, 0, 0, 0)
    /\ ec = [interval |-> INTERVAL_DEFAULT, mock_watts |-> <<>>, n_mocks |-> 0,
             power_cmd |-> FALSE,
             overhead |-> [min |-> INT_MAX, max |-> 0, mov_average |-> 0, n_samples |-> 0]]
    /\ components = [g \in {Interfaces[i] : i \in 1..INTERFACES_MAX} |-> <<>>]
    /\ pc = "probe"
    /\ pos = 1
    /\ cycle = 0
    /\ status = "running"
    /\ samples = [g \in DOMAIN components |-> <<>>]
    /\ acc_sum = [g \in DOMAIN components |-> <<>>]
    /\ res_fetches = [g \in DOMAIN components |-> <<>>]
    /\ ev = NoEv
    /\ cycle_log = NoCycleLog

ProbeUnchanged ==
    UNCHANGED <<hw, ec, components, pc, pos, cycle, status, samples, acc_sum, res_fetches, ev, cycle_log>>

InitProbeDelta ==
    /\ ProbeFrame
    /\ \E g \in {"CPUS", "DRAMS"}, last_energy_raw \in MsrWide, raw \in MsrWide,
          msr_unit \in MsrUnits, energy_acc \in {0, 9} :
          probe = [op |-> "delta", done |-> FALSE, g |-> g, raw |-> raw,
                   package |-> [Unit_t EXCEPT !.energy_raw = last_energy_raw,
                                   !.energy_acc = energy_acc,
                                   !.energy_resolution = PowHalf(EnergyUnitField(msr_unit)),
                                   !.energy_fd = "open"],
                   delta |-> 0, out |-> Unit_t]

probe_cpu_update ==
    /\ probe.op = "delta" /\ ~probe.done /\ probe.g = "CPUS"
    /\ probe' = [probe EXCEPT !.done = TRUE,
                    !.delta = WrapDelta(probe.package.energy_raw, probe.raw),
                    !.out = _cpu_package_update_files(probe.package, probe.raw, 0)]
    /\ ProbeUnchanged

probe_dram_update ==
    /\ probe.op = "delta" /\ ~probe.done /\ probe.g = "DRAMS"
    /\ probe' = [probe EXCEPT !.done = TRUE,
                    !.delta = WrapDelta(probe.package.energy_raw, probe.raw),
                    !.out = _dram_package_update_files(probe.package, probe.raw, 0)]
    /\ ProbeUnchanged

NextProbeDelta == probe_cpu_update \/ probe_dram_update

ProbeDelta == InitProbeDelta /\ [][NextProbeDelta]_vars

\* C3: for every pair (last_raw, raw) of 64-bit values, the raw delta of a CPU or
\* DRAM update is raw - last_raw when raw >= last_raw and (2^32 - last_raw) + raw
\* otherwise, computed without unsigned underflow (the mathematical value is the
\* stored one and is not negative), and the interval is resolution * delta.
C3_DeltaNoUnderflow ==
    (probe.op = "delta" /\ probe.done) =>
        LET last_raw == probe.package.energy_raw
            raw == probe.raw
            delta == IF raw >= last_raw THEN raw - last_raw ELSE (TwoPow32 - last_raw) + raw
            res == probe.package.energy_resolution
        IN  /\ delta >= 0
            /\ probe.delta = delta
            /\ probe.out.energy_interval = (res[1] * delta) \div res[2]

(***************************************************************************)
(* ProbeSplit: one call of _amd_device_fetch_energy_mi250 on the holder of *)
(* an MI250 pair, with any combined energy, any elapsed whole seconds and  *)
(* any utilisation values rsmi_dev_busy_percent_get can store (uint32_t).  *)
(***************************************************************************)
SplitEnergies == {0, 1, 79, 80, 81, 200, 1000, 2001}
SplitSeconds == {0, 1, 10}
BusyWide == {0, 40, 50, 60, 100, 101, UINT32_MAX}
\* a counter resolution of one Joule per count
SplitResolution == MICRO

\* an MI250 pair after amd_gpu_init, the holder having read a non-zero raw value
SplitPair ==
    LET s0 == amd_discover(amd_discover(Zeroed(2), 1, 7, MI250, 17), 2, 7, MI250, 18)
    IN  [s0 EXCEPT ![1] = _amd_device_fetch_energy(@, 1, SplitResolution, TsFirst),
                   ![2] = _amd_device_fetch_energy(@, 1, SplitResolution, TsFirst)]

InitProbeSplit ==
    /\ ProbeFrame
    /\ \E E \in SplitEnergies, t \in SplitSeconds, busy \in BusyWide, peer_busy \in BusyWide,
          rnd \in Roundings, ub \in {0, TwoPow64 - 1} :
          probe = [op |-> "split", done |-> FALSE, E |-> E, t |-> t,
                   busy |-> busy, peer_busy |-> peer_busy, rnd |-> rnd, ub |-> ub,
                   siblings |-> SplitPair, ratio |-> 0, out |-> SplitPair]

probe_mi250_update ==
    /\ probe.op = "split" /\ ~probe.done
    /\ probe' = [probe EXCEPT !.done = TRUE,
                    !.ratio = RatioNum(probe.busy, probe.peer_busy),
                    !.out = _amd_device_fetch_energy_mi250(probe.siblings, 1,
                               probe.busy, probe.peer_busy,
                               probe.siblings[1].energy_raw + probe.E, SplitResolution,
                               TsAdd(probe.siblings[1].timestamp, <<probe.t, 0>>),
                               probe.rnd, probe.ub)]
    /\ ProbeUnchanged

NextProbeSplit == probe_mi250_update

ProbeSplit == InitProbeSplit /\ [][NextProbeSplit]_vars

\* the claim's energy_idle and energy_above_idle of the probed update
SplitIdle == gcd_idle_power * probe.t
SplitAbove == Max(probe.E - (2 * SplitIdle), 0)
SplitInRange == probe.op = "split" /\ probe.done /\ probe.busy <= 100 /\ probe.peer_busy <= 100

\* C5 as stated: for busy values in [0,100] the two stored intervals are both at
\* least energy_idle and sum to exactly 2 * energy_idle + energy_above_idle.
C5_SplitSumsExactly ==
    SplitInRange =>
        /\ probe.out[1].energy_interval >= SplitIdle
        /\ probe.out[2].energy_interval >= SplitIdle
        /\ probe.out[1].energy_interval + probe.out[2].energy_interval
              = (2 * SplitIdle) + SplitAbove

\* C5: for busy values in [0,100] the two stored intervals are both at least
\* energy_idle; each share is truncated to whole Joules, so they sum to
\* 2 * energy_idle + energy_above_idle or to one Joule less.
C5_SplitSumsWithinOneJoule ==
    SplitInRange =>
        /\ probe.out[1].energy_interval >= SplitIdle
        /\ probe.out[2].energy_interval >= SplitIdle
        /\ probe.out[1].energy_interval + probe.out[2].energy_interval
              \in {(2 * SplitIdle) + SplitAbove - 1, (2 * SplitIdle) + SplitAbove}
        /\ probe.out[1].energy_acc = probe.siblings[1].energy_acc + probe.out[1].energy_interval
        /\ probe.out[2].energy_acc = probe.siblings[2].energy_acc + probe.out[2].energy_interval

\* energy above idle was shared unevenly and one Joule was lost to truncation
C5_Witness ==
    /\ SplitInRange
    /\ SplitAbove > 0
    /\ probe.busy # probe.peer_busy
    /\ probe.out[1].energy_interval + probe.out[2].energy_interval
          = (2 * SplitIdle) + SplitAbove - 1

\* the scenario of C22 in the probed update; with these values the products
\* 0.6 * 200 and 0.4 * 200 round to 120.0 and 80.0 in double arithmetic, so no
\* rounding error enters the shares
SplitScenario ==
    /\ probe.op = "split" /\ probe.done
    /\ probe.E = 1000 /\ probe.t = 10
    /\ probe.busy = 60 /\ probe.peer_busy = 40
    /\ probe.rnd = 0

\* C22: with gcd_idle_power = 40 W, 10 s elapsed, a combined interval energy of
\* 1000 J, busy_A = 60 and busy_B = 40, the split computes energy_idle = 400 J,
\* energy above idle = 200 J and a ratio of 0.6 (120 / 200), and stores an
\* energy_interval of 520 J for A and of 480 J for B, which sum to 1000 J.
C22_ScenarioSplit520And480 ==
    SplitScenario =>
        /\ gcd_idle_power = 40
        /\ SplitIdle = 400
        /\ SplitAbove = 200
        /\ probe.ratio * 10 = 6 * 200
        /\ probe.out[1].energy_interval = 520
        /\ probe.out[2].energy_interval = 480
        /\ probe.out[1].energy_interval + probe.out[2].energy_interval = probe.E

\* the scenario was run and A's accumulated energy grew by its share
C22_Witness ==
    /\ SplitScenario
    /\ probe.out[1].energy_acc = probe.siblings[1].energy_acc + 520
    /\ probe.out[2].energy_acc = probe.siblings[2].energy_acc + 480

\* C6: the share ratio used by the split, in units of 1/200, is
\* 100 + (busy_A - busy_B) clamped into [0, 200], for any uint32_t busy values.
C6_RatioClamped ==
    (probe.op = "split" /\ probe.done) =>
        /\ probe.ratio = Max(0, Min(200, 100 + (probe.busy - probe.peer_busy)))
        /\ probe.out[1].energy_interval <= SplitIdle + SplitAbove
        /\ probe.out[2].energy_interval <= SplitIdle + SplitAbove

(***************************************************************************)
(* ProbeDiscover: the unit loop of amd_gpu_init or intel_gpu_init over any *)
(* sequence of identities (AMD serial numbers, Intel bus ids) the devices  *)
(* can report, one step per unit.                                          *)
(***************************************************************************)
MaxDevices == 4
DiscoverIds == {3, 7, 9}

InitProbeDiscover ==
    /\ ProbeFrame
    /\ \E kind \in {"amd", "intel"}, n \in 1..MaxDevices :
       \E ids \in [1..n -> DiscoverIds] :
          probe = [op |-> "discover", kind |-> kind, ids |-> ids, i |-> 0,
                   siblings |-> Zeroed(n)]

probe_amd_discover ==
    /\ probe.op = "discover" /\ probe.kind = "amd"
    /\ probe.i < Len(probe.siblings)
    /\ probe' = [probe EXCEPT !.i = @ + 1,
                    !.siblings = amd_discover(@, probe.i + 1, probe.ids[probe.i + 1],
                                              MI250, 16 + probe.i + 1)]
    /\ ProbeUnchanged

probe_intel_discover ==
    /\ probe.op = "discover" /\ probe.kind = "intel"
    /\ probe.i < Len(probe.siblings)
    /\ probe' = [probe EXCEPT !.i = @ + 1,
                    !.siblings = intel_discover(@, probe.i + 1, probe.ids[probe.i + 1],
                                                MAX1550)]
    /\ ProbeUnchanged

NextProbeDiscover == probe_amd_discover \/ probe_intel_discover

ProbeDiscover == InitProbeDiscover /\ [][NextProbeDiscover]_vars

\* C21: after discovery, whatever identities consecutive devices report, peer
\* links form disjoint pairs: a link goes from a unit to the next one, a unit
\* that is the target of a link holds no link itself, and no unit is the target
\* of two links.
C21_PeerLinksFormDisjointPairs ==
    (probe.op = "discover" /\ probe.i = Len(probe.siblings)) =>
        LET s == probe.siblings
            Holders(t) == {u \in DOMAIN s : s[u].peer = t}
        IN  \A u \in DOMAIN s :
               /\ s[u].peer # 0 => (s[u].peer = u + 1 /\ s[s[u].peer].peer = 0)
               /\ Cardinality(Holders(u)) <= 1


(***************************************************************************)
(* ProbeAccumulate: a CPU or DRAM package after its baseline read,         *)
(* followed by consecutive calls of its *_update_files.  total is the sum  *)
(* of the wrap-corrected raw deltas, as integers.                          *)
(***************************************************************************)
\* raw - last_raw, or (2^32 - last_raw) + raw after a wrap, not reduced to 64 bits
CorrectedDelta(last_energy_raw, energy_raw) ==
    IF energy_raw >= last_energy_raw
    THEN energy_raw - last_energy_raw
    ELSE (TwoPow32 - last_energy_raw) + energy_raw

InitProbeAccumulate ==
    /\ ProbeFrame
    /\ \E g \in {"CPUS", "DRAMS"}, raw \in MsrWide, msr_unit \in MsrUnits :
          probe = [op |-> "accumulate", g |-> g, n |-> 0, total |-> 0,
                   package |-> [_cpu_package_fetch_energy(Unit_t, raw, msr_unit)
                                   EXCEPT !.energy_fd = "open"]]

probe_cpu_accumulate ==
    /\ probe.op = "accumulate" /\ probe.g = "CPUS" /\ probe.n < MaxCycles
    /\ \E raw \in MsrWide :
          probe' = [probe EXCEPT !.n = @ + 1,
                       !.total = @ + CorrectedDelta(probe.package.energy_raw, raw),
                       !.package = _cpu_package_update_files(@, raw, 0)]
    /\ ProbeUnchanged

probe_dram_accumulate ==
    /\ probe.op = "accumulate" /\ probe.g = "DRAMS" /\ probe.n < MaxCycles
    /\ \E raw \in MsrWide :
          probe' = [probe EXCEPT !.n = @ + 1,
                       !.total = @ + CorrectedDelta(probe.package.energy_raw, raw),
                       !.package = _dram_package_update_files(@, raw, 0)]
    /\ ProbeUnchanged

NextProbeAccumulate == probe_cpu_accumulate \/ probe_dram_accumulate

ProbeAccumulate == InitProbeAccumulate /\ [][NextProbeAccumulate]_vars

\* resolution * total, in whole Joules (rounded down)
TotalJoules == (probe.package.energy_resolution[1] * probe.total)
                   \div probe.package.energy_resolution[2]

\* C28: after N update cycles of a CPU or DRAM unit, energy_acc is at most
\* resolution * (the total wrap-corrected raw delta since the baseline read of
\* init) and falls short of it by strictly less than N Joules.
C28_AccWithinTruncationBound ==
    (probe.op = "accumulate" /\ probe.n > 0) =>
        /\ probe.package.energy_acc <= TotalJoules
        /\ TotalJoules < probe.package.energy_acc + probe.n


(***************************************************************************)
(* ProbeParse: argp_parse calling parse_opt once per --mock option of the  *)
(* command line, then mock_init.  The command line holds argc --mock       *)
(* options with the same argument.                                         *)
(***************************************************************************)
MaxMockOptions == 17
LONG_MAX == 2^(Bits64 - 1) - 1
\* the arguments given to --mock: 0, a small power, a negative number, a number
\* beyond the range of long
MockArgs == {0, 5, -1, LONG_MAX + 1}

\* strtol(arg, NULL, 10): the value, clamped to the range of long with errno = ERANGE
strtol(arg) ==
    IF arg > LONG_MAX THEN [value |-> LONG_MAX, errno |-> "ERANGE"]
    ELSE [value |-> arg, errno |-> ""]

\* what a write past the end of mock_watts leaves behind: the word lands in the
\* members that follow the array and parsing goes on, or the process is stopped
OverrunOutcomes == {"argp_parse", "SIGSEGV"}

InitProbeParse ==
    /\ ProbeFrame
    /\ \E argc \in 0..MaxMockOptions, arg \in MockArgs :
          probe = [op |-> "parse", phase |-> "argp_parse", argc |-> argc, arg |-> arg,
                   optind |-> 0, interval |-> INTERVAL_DEFAULT, n_mocks |-> 0,
                   mock_watts |-> [i \in 1..N_SIBLINGS_MAX |-> 0],
                   write |-> -1, siblings |-> <<>>]

\* parse_opt, case 'm'; element n_mocks of the C array is mock_watts[n_mocks + 1]
probe_parse_opt_mock ==
    /\ probe.op = "parse" /\ probe.phase = "argp_parse"
    /\ probe.optind < probe.argc
    /\ LET r == strtol(probe.arg)
           p1 == [probe EXCEPT !.optind = @ + 1, !.write = probe.n_mocks]
       IN  IF probe.n_mocks >= N_SIBLINGS_MAX
           THEN \E outcome \in OverrunOutcomes :
                   probe' = [p1 EXCEPT !.phase = outcome,
                                !.n_mocks = IF outcome = "argp_parse" THEN @ + 1 ELSE @]
           ELSE LET p2 == [p1 EXCEPT !.mock_watts[probe.n_mocks + 1] = U32(r.value)]
                IN  IF r.errno = "ERANGE"
                    THEN probe' = [p2 EXCEPT !.phase = "EXIT_FAILURE"]
                    ELSE probe' = [p2 EXCEPT !.n_mocks = @ + 1]
    /\ ProbeUnchanged

\* mock_init, called by init once argp_parse has returned
probe_mock_init ==
    /\ probe.op = "parse" /\ probe.phase = "argp_parse"
    /\ probe.optind = probe.argc
    /\ IF ~(probe.n_mocks < N_SIBLINGS_MAX)
       THEN probe' = [probe EXCEPT !.phase = "SIGABRT"]
       ELSE probe' = [probe EXCEPT !.phase = "running",
                         !.siblings = [i \in 1..probe.n_mocks |->
                                          mock_init_unit(Unit_t, i, probe.mock_watts[i],
                                                         probe.interval)]]
    /\ ProbeUnchanged

NextProbeParse == probe_parse_opt_mock \/ probe_mock_init

ProbeParse == InitProbeParse /\ [][NextProbeParse]_vars

\* C29: for any number of --mock options, parse_opt writes mock_watts[n_mocks] only
\* with n_mocks < N_SIBLINGS_MAX and mock_init reads and initialises only indices
\* below N_SIBLINGS_MAX: no access to mock_watts or siblings is out of bounds.
C29_MockAccessesInBounds ==
    probe.op = "parse" =>
        /\ probe.write < N_SIBLINGS_MAX
        /\ Len(probe.siblings) <= N_SIBLINGS_MAX


\* C30: every write starts at offset 0 and does not truncate; energy_acc never
\* decreases, so the text "<energy_acc> Joules" written in a cycle is never shorter
\* than an earlier one and the destination holds exactly the text written last,
\* with no leftover characters of an older, longer value.
C30_NoLeftoverCharacters ==
    (probe.op = "accumulate" /\ probe.n > 0) =>
        probe.package.file = FormatJoules(probe.package.energy_acc)

====
